---- MODULE Spec2Model ----
(***************************************************************************)
(* A model of package runtimeconfig (src/runtimeconfig.go): RuntimeConfig  *)
(* objects, each two Go maps behind one sync.RWMutex, and goroutines that  *)
(* call the package's functions on them.  A goroutine's call is a frame    *)
(* (its receiver, arguments, locals and position); a step of a call is one *)
(* statement or one loop iteration of the function's body.  Go maps are    *)
(* reference values: a RuntimeConfig holds the names of its two maps, and  *)
(* the maps live in dataMaps and boolMaps.  The package's older variant     *)
(* (src/unnamed/part_000), a RuntimeConfig with data alone, is modelled     *)
(* beside it in `old`, to compare the two call by call.                     *)
(***************************************************************************)
EXTENDS Naturals, Sequences, FiniteSets, TLC

VARIABLES
    configs,    \* the RuntimeConfig structs made so far: <<[data, ignoreKeys, mu]>>
    dataMaps,   \* the map[string]string values, by name
    boolMaps,   \* the map[string]bool values, by name
    frame,      \* each goroutine's call in progress
    calls,      \* how many calls were started
    origin,     \* history: for each config and key, the last write to the key
    old         \* the older variant: its one RuntimeConfig and the call on it

vars == <<configs, dataMaps, boolMaps, frame, calls, origin, old>>

(* ------------------------------ bounds -------------------------------- *)

NumThreads == 2
MaxConfigs == 2
MaxLen == 2
MaxCalls == 3
MaxSerialCalls == 4
MaxSetGetCalls == 4
MaxDisjointCalls == 5
MaxReportCalls == 4
MaxRefineCalls == 4

Threads == 1..NumThreads

\* The strings goroutines pass as keys, and as values to Set.
KeyNames == {"HOST", "PORT"}

SetValues == {"", "localhost"}

\* The process environment: HOST is set, PORT is not.
Environ == [k \in {"HOST"} |-> "db.local"]

RECURSIVE SeqsUpTo(_, _)
SeqsUpTo(S, n) ==
    IF n = 0 THEN {<<>>}
    ELSE LET shorter == SeqsUpTo(S, n - 1)
         IN  shorter \cup {Append(s, x) : s \in shorter, x \in S}

KeySeqs == SeqsUpTo(KeyNames, MaxLen)

(* --------------------------- Go's built-ins --------------------------- *)

\* A default value that is not the empty string.
mKeyDefaultValue_NotEmpty == "unset"

mKeyDefaultValue == ""

\* make(map[...]...): the empty map.
MakeMap == <<>>

\* m[k] = v
MapStore(m, k, v) == [x \in DOMAIN m \cup {k} |-> IF x = k THEN v ELSE m[x]]

\* delete(m, k)
MapDelete(m, k) == [x \in DOMAIN m \ {k} |-> m[x]]

\* m[k] of a map[string]string: the zero value "" when k is absent.
MapString(m, k) == IF k \in DOMAIN m THEN m[k] ELSE ""

\* m[k] of a map[string]bool: the zero value false when k is absent.
MapBool(m, k) == IF k \in DOMAIN m THEN m[k] ELSE FALSE

\* os.Getenv(key): the variable's value, "" when it is not set.
Getenv(key) == IF key \in DOMAIN Environ THEN Environ[key] ELSE ""

\* fmt.Printf(format, args...): the line printed, as its format and arguments.
Printf1(format, a) == <<format, a>>
Printf2(format, a, b) == <<format, a, b>>

\* The least name in 1.. that is not in `used`.
FreshName(used) ==
    CHOOSE r \in 1..(Cardinality(used) + 1) :
        r \notin used /\ \A q \in 1..(r - 1) : q \in used

(* --------------------------- sync.RWMutex ----------------------------- *)

NewMutex == [w |-> 0, r |-> {}]

\* Lock() returns once no goroutine holds the mutex for reading or writing.
CanLock(mu) == mu.w = 0 /\ mu.r = {}

\* RLock() returns once no goroutine holds the mutex for writing.  (Go also
\* holds new readers back while a Lock() is waiting; letting them pass here
\* only adds behaviours.)
CanRLock(mu) == mu.w = 0

(* ------------------------------ frames -------------------------------- *)

Idle ==
    [pc |-> "idle", op |-> "none", self |-> 0, key |-> "", value |-> "",
     keys |-> <<>>, ignoreKeys |-> <<>>, i |-> 0, todo |-> {},
     newData |-> 0, newIgnoreKeys |-> 0, cm |-> 0,
     ret |-> "", ok |-> FALSE, n |-> 0, out |-> <<>>, seen |-> {}]

WriterOps ==
    {"ClearData", "ClearIgnoreKeys", "Set", "Delete", "AddIgnoreKeys",
     "AddIgnoreKey", "RemoveIgnoreKey", "LoadValueFromEnv"}

ReaderOps ==
    {"CreateCopy", "Get", "Keys", "Size", "IgnoreKeys", "ValuesLoaded",
     "PrintMissingValues", "PrintStatus"}

AllOps == {"NewRuntimeConfig"} \cup WriterOps \cup ReaderOps

\* A Set that takes the mutex with RLock()/RUnlock(), as the readers do.
Locking_SetRLock(op) ==
    IF op \in {"ClearData", "ClearIgnoreKeys", "Delete", "AddIgnoreKeys",
               "AddIgnoreKey", "RemoveIgnoreKey", "LoadValueFromEnv"}
    THEN "Lock"
    ELSE IF op \in {"CreateCopy", "Get", "Keys", "Size", "IgnoreKeys",
                    "ValuesLoaded", "PrintMissingValues", "PrintStatus", "Set"}
    THEN "RLock"
    ELSE "none"

\* An AddIgnoreKeys that takes the mutex with RLock()/RUnlock().
Locking_AddIgnoreKeysRLock(op) ==
    IF op \in {"ClearData", "ClearIgnoreKeys", "Set", "Delete",
               "AddIgnoreKey", "RemoveIgnoreKey", "LoadValueFromEnv"}
    THEN "Lock"
    ELSE IF op \in {"CreateCopy", "Get", "Keys", "Size", "IgnoreKeys",
                    "ValuesLoaded", "PrintMissingValues", "PrintStatus",
                    "AddIgnoreKeys"}
    THEN "RLock"
    ELSE "none"

\* Every method taking the mutex with RLock()/RUnlock().
Locking_AllRLock(op) == IF op = "NewRuntimeConfig" THEN "none" ELSE "RLock"

\* How each method takes the mutex: rconfig.mu.Lock() with a deferred Unlock(),
\* or rconfig.mu.RLock() with a deferred RUnlock().
Locking(op) ==
    IF op \in {"ClearData", "ClearIgnoreKeys", "Set", "Delete", "AddIgnoreKeys",
               "AddIgnoreKey", "RemoveIgnoreKey", "LoadValueFromEnv"}
    THEN "Lock"
    ELSE IF op \in {"CreateCopy", "Get", "Keys", "Size", "IgnoreKeys",
                    "ValuesLoaded", "PrintMissingValues", "PrintStatus"}
    THEN "RLock"
    ELSE "none"

\* The goroutine is between its Lock/RLock and its deferred Unlock/RUnlock.
InCS(f) == f.op \in WriterOps \cup ReaderOps /\ f.pc \in {"body", "range", "range2", "return"}

\* The config has been returned by the call that made it.
Published(o) == \A t \in Threads : frame[t].cm # o

Data(o) == dataMaps[configs[o].data]

Ignore(o) == boolMaps[configs[o].ignoreKeys]

\* What a config holds: its values and the keys its ignoreKeys map holds true.
ContentsOf(cs, dm, bm, o) ==
    [values |-> dm[cs[o].data],
     ignored |-> {k \in DOMAIN bm[cs[o].ignoreKeys] : bm[cs[o].ignoreKeys][k]}]

Contents(o) == ContentsOf(configs, dataMaps, boolMaps, o)

\* History kept beside each call in its critical section: every contents its
\* receiver had while the call was inside.
Observe(fr, cs, dm, bm) ==
    [t \in Threads |->
        IF InCS(fr[t])
        THEN [fr[t] EXCEPT !.seen = @ \cup {ContentsOf(cs, dm, bm, fr[t].self)}]
        ELSE fr[t]]

\* The names of the maps some config or some call's local still refers to.
DataNames(cs, fr) ==
    ({cs[o].data : o \in 1..Len(cs)} \cup {fr[t].newData : t \in Threads}) \ {0}

BoolNames(cs, fr) ==
    ({cs[o].ignoreKeys : o \in 1..Len(cs)}
        \cup {fr[t].newIgnoreKeys : t \in Threads}) \ {0}

\* The history of a key of a config: the kind of the last write to it ("new" by
\* NewRuntimeConfig, "set" by Set, "env" by LoadValueFromEnv) with the value
\* written; "deleted" once Delete or ClearData has removed a key that had been
\* written; "none" while no call has ever written the key.  CreateCopy hands
\* the source's history to the copy.
NoWrite == [kind |-> "none", val |-> ""]

Wrote(kind, val) == [kind |-> kind, val |-> val]

Removed(h) == IF h.kind = "none" THEN h ELSE [kind |-> "deleted", val |-> ""]

(* ------------------------------- Init --------------------------------- *)

\* The older variant's call in progress: none.
OldIdle ==
    [pc |-> "idle", op |-> "none", key |-> "", value |-> "", keys |-> <<>>,
     i |-> 0, todo |-> {}, ret |-> "", n |-> 0, out |-> <<>>]

\* The older variant before its NewRuntimeConfig is called.
OldNone == [made |-> FALSE, data |-> MakeMap, mu |-> NewMutex, f |-> OldIdle]

Init ==
    /\ configs = <<>>
    /\ dataMaps = <<>>
    /\ boolMaps = <<>>
    /\ frame = [t \in Threads |-> Idle]
    /\ calls = 0
    /\ origin = <<>>
    /\ old = OldNone

(* ------------------------- the shape of a step ------------------------ *)

Restrict(m, names) == [x \in DOMAIN m \cap names |-> m[x]]

\* One step of goroutine t's call: its frame becomes f and the configs, the
\* maps and the history become cs, dm, bm and og.  Maps that nothing refers
\* to any more are collected.
Step(t, f, cs, dm, bm, og) ==
    LET fr == [frame EXCEPT ![t] = f]
    IN  /\ configs' = cs
        /\ dataMaps' = Restrict(dm, DataNames(cs, fr))
        /\ boolMaps' = Restrict(bm, BoolNames(cs, fr))
        /\ origin' = og
        /\ frame' = Observe(fr, cs, dm, bm)
        /\ UNCHANGED <<calls, old>>

\* A step that changes the frame alone.
Local(t, f) == Step(t, f, configs, dataMaps, boolMaps, origin)

\* A step that stores into the receiver's data map.
StoreData(t, f, m, og) ==
    Step(t, f, configs, [dataMaps EXCEPT ![configs[frame[t].self].data] = m],
         boolMaps, og)

\* A step that stores into the receiver's ignoreKeys map.
StoreIgnore(t, f, m) ==
    Step(t, f, configs, dataMaps,
         [boolMaps EXCEPT ![configs[frame[t].self].ignoreKeys] = m], origin)

At(t, op, pc) == frame[t].op = op /\ frame[t].pc = pc

(* ------------------------ calling and returning ----------------------- *)

\* The frames with which a call of op on config o can start.
Calls(op, o) ==
    LET f == [Idle EXCEPT !.pc = "lock", !.op = op, !.self = o]
    IN  CASE op = "NewRuntimeConfig" ->
               {[Idle EXCEPT !.pc = "body", !.op = op, !.keys = K,
                             !.ignoreKeys = I] : K \in KeySeqs, I \in KeySeqs}
          [] op = "Set" ->
               {[f EXCEPT !.key = k, !.value = v] :
                    k \in KeyNames, v \in SetValues}
          [] op \in {"Get", "Delete", "AddIgnoreKey", "RemoveIgnoreKey"} ->
               {[f EXCEPT !.key = k] : k \in KeyNames}
          [] op = "AddIgnoreKeys" ->
               {[f EXCEPT !.keys = K] : K \in KeySeqs}
          [] OTHER -> {f}

\* The configs a call of op can be made on.  NewRuntimeConfig has none (0): the
\* program makes its one root config while it has no other.  CreateCopy is
\* called only while the copies in the making leave room for one more.
Receivers(op) ==
    LET given == {c \in 1..Len(configs) : Published(c)}
        making == {u \in Threads : frame[u].op \in {"NewRuntimeConfig", "CreateCopy"}
                                     /\ frame[u].cm = 0}
    IN  CASE op = "NewRuntimeConfig" ->
               IF Len(configs) = 0 /\ making = {} THEN {0} ELSE {}
          [] op = "CreateCopy" ->
               IF Len(configs) + Cardinality(making) < MaxConfigs THEN given ELSE {}
          [] OTHER -> given

\* Goroutine t calls one of the functions in `menu`: NewRuntimeConfig while
\* the program has no config yet, a method on a config it has been given.
\* The program makes at most `limit` calls.
Call(t, menu, limit) ==
    /\ frame[t].pc = "idle"
    /\ calls < limit
    /\ \E op \in menu :
        \E o \in Receivers(op) :
            \E f \in Calls(op, o) :
                /\ frame' = [frame EXCEPT ![t] = f]
                /\ calls' = calls + 1
                /\ UNCHANGED <<configs, dataMaps, boolMaps, origin, old>>

\* rconfig.mu.Lock()
Lock(t) ==
    LET f == frame[t]
        o == f.self
    IN  /\ f.pc = "lock"
        /\ Locking(f.op) = "Lock"
        /\ CanLock(configs[o].mu)
        /\ Step(t, [f EXCEPT !.pc = "body"],
                [configs EXCEPT ![o].mu.w = t], dataMaps, boolMaps, origin)

\* rconfig.mu.RLock()
RLock(t) ==
    LET f == frame[t]
        o == f.self
    IN  /\ f.pc = "lock"
        /\ Locking(f.op) = "RLock"
        /\ CanRLock(configs[o].mu)
        /\ Step(t, [f EXCEPT !.pc = "body"],
                [configs EXCEPT ![o].mu.r = @ \cup {t}], dataMaps, boolMaps, origin)

\* A return that leaves the mutex locked for writing.
Unlock_Keeps(mu, t) == mu

\* The mutex after the deferred rconfig.mu.Unlock() of goroutine t.
Unlock(mu, t) == [mu EXCEPT !.w = 0]

\* The mutex after the deferred rconfig.mu.RUnlock() of goroutine t.
RUnlock(mu, t) == [mu EXCEPT !.r = @ \ {t}]

\* The call returns: its deferred unlock runs and its frame is gone.
Return(t) ==
    LET f == frame[t]
        o == f.self
    IN  /\ f.pc = "return"
        /\ Step(t, Idle,
                IF Locking(f.op) = "Lock"
                THEN [configs EXCEPT ![o].mu = Unlock(@, t)]
                ELSE IF Locking(f.op) = "RLock"
                THEN [configs EXCEPT ![o].mu = RUnlock(@, t)]
                ELSE configs,
                dataMaps, boolMaps, origin)

(* -------------------------- NewRuntimeConfig -------------------------- *)

\* cm := &RuntimeConfig{data: make(...), ignoreKeys: make(...)}, then
\* for _, key := range defaultKeys { cm.data[key] = mKeyDefaultValue }, then
\* for _, key := range ignoreKeys { cm.ignoreKeys[key] = true }, then return cm.
NewRuntimeConfig(t) ==
    LET f == frame[t]
        cm == f.cm
    IN  \/ /\ At(t, "NewRuntimeConfig", "body")
           /\ LET d == FreshName(DataNames(configs, frame))
                  b == FreshName(BoolNames(configs, frame))
                  c == Len(configs) + 1
              IN  Step(t, [f EXCEPT !.pc = "range", !.cm = c, !.i = 1],
                       Append(configs, [data |-> d, ignoreKeys |-> b, mu |-> NewMutex]),
                       (d :> MakeMap) @@ dataMaps,
                       (b :> MakeMap) @@ boolMaps,
                       Append(origin, [k \in KeyNames |-> NoWrite]))
        \/ /\ At(t, "NewRuntimeConfig", "range")
           /\ f.i <= Len(f.keys)
           /\ LET key == f.keys[f.i]
              IN  Step(t, [f EXCEPT !.i = @ + 1], configs,
                       [dataMaps EXCEPT ![configs[cm].data] =
                            MapStore(@, key, mKeyDefaultValue)],
                       boolMaps,
                       [origin EXCEPT ![cm][key] = Wrote("new", mKeyDefaultValue)])
        \/ /\ At(t, "NewRuntimeConfig", "range")
           /\ f.i > Len(f.keys)
           /\ Local(t, [f EXCEPT !.pc = "range2", !.i = 1])
        \/ /\ At(t, "NewRuntimeConfig", "range2")
           /\ f.i <= Len(f.ignoreKeys)
           /\ LET key == f.ignoreKeys[f.i]
              IN  Step(t, [f EXCEPT !.i = @ + 1], configs, dataMaps,
                       [boolMaps EXCEPT ![configs[cm].ignoreKeys] =
                            MapStore(@, key, TRUE)],
                       origin)
        \/ /\ At(t, "NewRuntimeConfig", "range2")
           /\ f.i > Len(f.ignoreKeys)
           /\ Local(t, [f EXCEPT !.pc = "return"])

(* ---------------------------- Set, Get, Delete ------------------------ *)

\* A Set that stores only when the key is not in data yet.
Set_IfAbsent(t) ==
    LET f == frame[t]
        o == f.self
    IN  /\ At(t, "Set", "body")
        /\ StoreData(t, [f EXCEPT !.pc = "return"],
                     IF f.key \in DOMAIN Data(o) THEN Data(o)
                     ELSE MapStore(Data(o), f.key, f.value),
                     [origin EXCEPT ![o][f.key] = Wrote("set", f.value)])

\* rconfig.data[key] = value
Set(t) ==
    LET f == frame[t]
        o == f.self
    IN  /\ At(t, "Set", "body")
        /\ StoreData(t, [f EXCEPT !.pc = "return"],
                     MapStore(Data(o), f.key, f.value),
                     [origin EXCEPT ![o][f.key] = Wrote("set", f.value)])

\* A Get that stores the value it returns, so that a key that was absent is
\* in data afterwards.
Get_Inserts(t) ==
    LET f == frame[t]
        o == f.self
    IN  /\ At(t, "Get", "body")
        /\ StoreData(t, [f EXCEPT !.pc = "return", !.ret = MapString(Data(o), f.key)],
                     MapStore(Data(o), f.key, MapString(Data(o), f.key)), origin)

\* return rconfig.data[key]
Get(t) ==
    LET f == frame[t]
        o == f.self
    IN  /\ At(t, "Get", "body")
        /\ Local(t, [f EXCEPT !.pc = "return", !.ret = MapString(Data(o), f.key)])

\* A Delete that blanks the key's value and keeps the key.
Delete_Blank(t) ==
    LET f == frame[t]
        o == f.self
    IN  /\ At(t, "Delete", "body")
        /\ StoreData(t, [f EXCEPT !.pc = "return"],
                     MapStore(Data(o), f.key, ""),
                     [origin EXCEPT ![o][f.key] = Removed(@)])

\* A Delete that takes the key out of ignoreKeys as well.
Delete_Unignores(t) ==
    LET f == frame[t]
        o == f.self
    IN  /\ At(t, "Delete", "body")
        /\ Step(t, [f EXCEPT !.pc = "return"], configs,
                [dataMaps EXCEPT ![configs[o].data] = MapDelete(@, f.key)],
                [boolMaps EXCEPT ![configs[o].ignoreKeys] = MapDelete(@, f.key)],
                [origin EXCEPT ![o][f.key] = Removed(@)])

\* delete(rconfig.data, key)
Delete(t) ==
    LET f == frame[t]
        o == f.self
    IN  /\ At(t, "Delete", "body")
        /\ StoreData(t, [f EXCEPT !.pc = "return"],
                     MapDelete(Data(o), f.key),
                     [origin EXCEPT ![o][f.key] = Removed(@)])

(* ----------------------- ClearData, ClearIgnoreKeys ------------------- *)

\* A ClearData that blanks every value and keeps the keys.
ClearData_Blank(t) ==
    LET f == frame[t]
        o == f.self
    IN  /\ At(t, "ClearData", "body")
        /\ StoreData(t, [f EXCEPT !.pc = "return"],
                     [k \in DOMAIN Data(o) |-> ""],
                     [origin EXCEPT ![o] = [k \in KeyNames |-> Removed(@[k])]])

\* rconfig.data = make(map[string]string)
ClearData(t) ==
    LET f == frame[t]
        o == f.self
        d == FreshName(DataNames([configs EXCEPT ![o].data = 0], frame))
    IN  /\ At(t, "ClearData", "body")
        /\ Step(t, [f EXCEPT !.pc = "return"],
                [configs EXCEPT ![o].data = d],
                (d :> MakeMap) @@ dataMaps, boolMaps,
                [origin EXCEPT ![o] = [k \in KeyNames |-> Removed(@[k])]])

\* rconfig.ignoreKeys = make(map[string]bool)
ClearIgnoreKeys(t) ==
    LET f == frame[t]
        o == f.self
        b == FreshName(BoolNames([configs EXCEPT ![o].ignoreKeys = 0], frame))
    IN  /\ At(t, "ClearIgnoreKeys", "body")
        /\ Step(t, [f EXCEPT !.pc = "return"],
                [configs EXCEPT ![o].ignoreKeys = b],
                dataMaps, (b :> MakeMap) @@ boolMaps, origin)

(* ------------------------------ Keys, Size ---------------------------- *)

\* keys := make([]string, 0, len(rconfig.data)), then
\* for key := range rconfig.data { keys = append(keys, key) }, then return keys.
\* A range over a map visits its keys in no fixed order; `todo` are the keys
\* not yet visited.
Keys(t) ==
    LET f == frame[t]
        o == f.self
    IN  \/ /\ At(t, "Keys", "body")
           /\ Local(t, [f EXCEPT !.pc = "range", !.keys = <<>>,
                                 !.todo = DOMAIN Data(o)])
        \/ /\ At(t, "Keys", "range")
           /\ \E key \in f.todo :
                Local(t, [f EXCEPT !.todo = @ \ {key},
                                   !.keys = IF key \in DOMAIN Data(o)
                                            THEN Append(@, key) ELSE @])
        \/ /\ At(t, "Keys", "range")
           /\ f.todo = {}
           /\ Local(t, [f EXCEPT !.pc = "return"])

\* return len(rconfig.data)
Size(t) ==
    LET f == frame[t]
        o == f.self
    IN  /\ At(t, "Size", "body")
        /\ Local(t, [f EXCEPT !.pc = "return", !.n = Cardinality(DOMAIN Data(o))])

(* ------------------- AddIgnoreKeys, AddIgnoreKey, RemoveIgnoreKey ------ *)

\* An AddIgnoreKeys that stores each new key into a map of its own, dropping
\* the keys that were ignored before.
AddIgnoreKeys_Overwrite(t) ==
    LET f == frame[t]
        o == f.self
    IN  \/ /\ At(t, "AddIgnoreKeys", "body")
           /\ Local(t, [f EXCEPT !.pc = "range", !.i = 1])
        \/ /\ At(t, "AddIgnoreKeys", "range")
           /\ f.i <= Len(f.keys)
           /\ LET key == f.keys[f.i]
              IN  IF MapBool(Ignore(o), key)
                  THEN Local(t, [f EXCEPT !.i = @ + 1,
                         !.out = Append(@, Printf1("Key '%s' is already in ignoreKeys.\n", key))])
                  ELSE StoreIgnore(t, [f EXCEPT !.i = @ + 1,
                         !.out = Append(@, Printf1("Key '%s' added to ignoreKeys.\n", key))],
                         MapStore(MakeMap, key, TRUE))
        \/ /\ At(t, "AddIgnoreKeys", "range")
           /\ f.i > Len(f.keys)
           /\ Local(t, [f EXCEPT !.pc = "return"])

\* for _, key := range keys: if rconfig.ignoreKeys[key] { Printf(already);
\* continue }; rconfig.ignoreKeys[key] = true; Printf(added).
AddIgnoreKeys(t) ==
    LET f == frame[t]
        o == f.self
    IN  \/ /\ At(t, "AddIgnoreKeys", "body")
           /\ Local(t, [f EXCEPT !.pc = "range", !.i = 1])
        \/ /\ At(t, "AddIgnoreKeys", "range")
           /\ f.i <= Len(f.keys)
           /\ LET key == f.keys[f.i]
              IN  IF MapBool(Ignore(o), key)
                  THEN Local(t, [f EXCEPT !.i = @ + 1,
                         !.out = Append(@, Printf1("Key '%s' is already in ignoreKeys.\n", key))])
                  ELSE StoreIgnore(t, [f EXCEPT !.i = @ + 1,
                         !.out = Append(@, Printf1("Key '%s' added to ignoreKeys.\n", key))],
                         MapStore(Ignore(o), key, TRUE))
        \/ /\ At(t, "AddIgnoreKeys", "range")
           /\ f.i > Len(f.keys)
           /\ Local(t, [f EXCEPT !.pc = "return"])

\* if rconfig.ignoreKeys[key] { Printf(already); return };
\* rconfig.ignoreKeys[key] = true; Printf(added).
AddIgnoreKey(t) ==
    LET f == frame[t]
        o == f.self
    IN  /\ At(t, "AddIgnoreKey", "body")
        /\ IF MapBool(Ignore(o), f.key)
           THEN Local(t, [f EXCEPT !.pc = "return",
                  !.out = Append(@, Printf1("Key '%s' is already in ignoreKeys.\n", f.key))])
           ELSE StoreIgnore(t, [f EXCEPT !.pc = "return",
                  !.out = Append(@, Printf1("Key '%s' added to ignoreKeys.\n", f.key))],
                  MapStore(Ignore(o), f.key, TRUE))

\* A RemoveIgnoreKey without the early return: it deletes and prints "removed"
\* whether the key is ignored or not.
RemoveIgnoreKey_NoCheck(t) ==
    LET f == frame[t]
        o == f.self
    IN  /\ At(t, "RemoveIgnoreKey", "body")
        /\ StoreIgnore(t, [f EXCEPT !.pc = "return",
                  !.out = Append(@, Printf1("Key '%s' removed from ignoreKeys.\n", f.key))],
                  MapDelete(Ignore(o), f.key))

\* if !rconfig.ignoreKeys[key] { Printf(not in); return };
\* delete(rconfig.ignoreKeys, key); Printf(removed).
RemoveIgnoreKey(t) ==
    LET f == frame[t]
        o == f.self
    IN  /\ At(t, "RemoveIgnoreKey", "body")
        /\ IF ~MapBool(Ignore(o), f.key)
           THEN Local(t, [f EXCEPT !.pc = "return",
                  !.out = Append(@, Printf1("Key '%s' is not in ignoreKeys.\n", f.key))])
           ELSE StoreIgnore(t, [f EXCEPT !.pc = "return",
                  !.out = Append(@, Printf1("Key '%s' removed from ignoreKeys.\n", f.key))],
                  MapDelete(Ignore(o), f.key))

(* ------------------------------ IgnoreKeys ---------------------------- *)

\* keys := make([]string, 0, len(rconfig.data)), then
\* for key := range rconfig.data { keys = append(keys, key) }, then return keys.
IgnoreKeys(t) ==
    LET f == frame[t]
        o == f.self
    IN  \/ /\ At(t, "IgnoreKeys", "body")
           /\ Local(t, [f EXCEPT !.pc = "range", !.keys = <<>>,
                                 !.todo = DOMAIN Data(o)])
        \/ /\ At(t, "IgnoreKeys", "range")
           /\ \E key \in f.todo :
                Local(t, [f EXCEPT !.todo = @ \ {key},
                                   !.keys = IF key \in DOMAIN Data(o)
                                            THEN Append(@, key) ELSE @])
        \/ /\ At(t, "IgnoreKeys", "range")
           /\ f.todo = {}
           /\ Local(t, [f EXCEPT !.pc = "return"])

(* --------------------------- LoadValueFromEnv ------------------------- *)

\* A LoadValueFromEnv that keeps the old value of a key whose variable is
\* not set.
LoadValueFromEnv_KeepsUnset(t) ==
    LET f == frame[t]
        o == f.self
    IN  \/ /\ At(t, "LoadValueFromEnv", "body")
           /\ Local(t, [f EXCEPT !.pc = "range", !.todo = DOMAIN Data(o)])
        \/ /\ At(t, "LoadValueFromEnv", "range")
           /\ \E key \in f.todo :
                IF key \in DOMAIN Data(o) /\ Getenv(key) # ""
                THEN StoreData(t, [f EXCEPT !.todo = @ \ {key}],
                               MapStore(Data(o), key, Getenv(key)),
                               [origin EXCEPT ![o][key] = Wrote("env", Getenv(key))])
                ELSE Local(t, [f EXCEPT !.todo = @ \ {key}])
        \/ /\ At(t, "LoadValueFromEnv", "range")
           /\ f.todo = {}
           /\ Local(t, [f EXCEPT !.pc = "return"])

\* for key := range rconfig.data { rconfig.data[key] = os.Getenv(key) }
LoadValueFromEnv(t) ==
    LET f == frame[t]
        o == f.self
    IN  \/ /\ At(t, "LoadValueFromEnv", "body")
           /\ Local(t, [f EXCEPT !.pc = "range", !.todo = DOMAIN Data(o)])
        \/ /\ At(t, "LoadValueFromEnv", "range")
           /\ \E key \in f.todo :
                IF key \in DOMAIN Data(o)
                THEN StoreData(t, [f EXCEPT !.todo = @ \ {key}],
                               MapStore(Data(o), key, Getenv(key)),
                               [origin EXCEPT ![o][key] = Wrote("env", Getenv(key))])
                ELSE Local(t, [f EXCEPT !.todo = @ \ {key}])
        \/ /\ At(t, "LoadValueFromEnv", "range")
           /\ f.todo = {}
           /\ Local(t, [f EXCEPT !.pc = "return"])

(* ------------- ValuesLoaded, PrintMissingValues, PrintStatus ---------- *)

\* A ValuesLoaded that never consults ignoreKeys.
LoadedSkips_Never(ignoreKeys, key) == FALSE

\* A PrintMissingValues that never consults ignoreKeys.
MissingSkips_Never(ignoreKeys, key) == FALSE

\* A ValuesLoaded that skips every key as soon as any key is ignored.
LoadedSkips_Any(ignoreKeys, key) == \E k \in DOMAIN ignoreKeys : ignoreKeys[k]

\* if rconfig.ignoreKeys[key] { continue }, in ValuesLoaded
LoadedSkips(ignoreKeys, key) == MapBool(ignoreKeys, key)

\* A PrintMissingValues that skips the keys that are not ignored.
MissingSkips_Inverted(ignoreKeys, key) == ~MapBool(ignoreKeys, key)

\* if rconfig.ignoreKeys[key] { continue }, in PrintMissingValues
MissingSkips(ignoreKeys, key) == MapBool(ignoreKeys, key)

\* for key, value := range rconfig.data: if rconfig.ignoreKeys[key] { continue };
\* if value == "" { return false }.  After the loop: return true.
ValuesLoaded(t) ==
    LET f == frame[t]
        o == f.self
    IN  \/ /\ At(t, "ValuesLoaded", "body")
           /\ Local(t, [f EXCEPT !.pc = "range", !.todo = DOMAIN Data(o)])
        \/ /\ At(t, "ValuesLoaded", "range")
           /\ \E key \in f.todo :
                IF key \notin DOMAIN Data(o) \/ LoadedSkips(Ignore(o), key)
                THEN Local(t, [f EXCEPT !.todo = @ \ {key}])
                ELSE IF Data(o)[key] = ""
                THEN Local(t, [f EXCEPT !.todo = @ \ {key}, !.pc = "return",
                                        !.ok = FALSE])
                ELSE Local(t, [f EXCEPT !.todo = @ \ {key}])
        \/ /\ At(t, "ValuesLoaded", "range")
           /\ f.todo = {}
           /\ Local(t, [f EXCEPT !.pc = "return", !.ok = TRUE])

\* for key, value := range rconfig.data: if rconfig.ignoreKeys[key] { continue };
\* if value == "" { Printf("%s: (not set)\n", key) }.
PrintMissingValues(t) ==
    LET f == frame[t]
        o == f.self
    IN  \/ /\ At(t, "PrintMissingValues", "body")
           /\ Local(t, [f EXCEPT !.pc = "range", !.todo = DOMAIN Data(o)])
        \/ /\ At(t, "PrintMissingValues", "range")
           /\ \E key \in f.todo :
                IF key \notin DOMAIN Data(o) \/ MissingSkips(Ignore(o), key)
                THEN Local(t, [f EXCEPT !.todo = @ \ {key}])
                ELSE IF Data(o)[key] = ""
                THEN Local(t, [f EXCEPT !.todo = @ \ {key},
                         !.out = Append(@, Printf1("%s: (not set)\n", key))])
                ELSE Local(t, [f EXCEPT !.todo = @ \ {key}])
        \/ /\ At(t, "PrintMissingValues", "range")
           /\ f.todo = {}
           /\ Local(t, [f EXCEPT !.pc = "return"])

\* A PrintStatus that passes over the ignored keys.
PrintStatus_SkipsIgnored(t) ==
    LET f == frame[t]
        o == f.self
    IN  \/ /\ At(t, "PrintStatus", "body")
           /\ Local(t, [f EXCEPT !.pc = "range", !.todo = DOMAIN Data(o)])
        \/ /\ At(t, "PrintStatus", "range")
           /\ \E key \in f.todo :
                IF key \notin DOMAIN Data(o) \/ MapBool(Ignore(o), key)
                THEN Local(t, [f EXCEPT !.todo = @ \ {key}])
                ELSE IF Data(o)[key] = ""
                THEN Local(t, [f EXCEPT !.todo = @ \ {key},
                         !.out = Append(@, Printf1("%s: (not set)\n", key))])
                ELSE Local(t, [f EXCEPT !.todo = @ \ {key},
                         !.out = Append(@, Printf2("%s: %s\n", key, Data(o)[key]))])
        \/ /\ At(t, "PrintStatus", "range")
           /\ f.todo = {}
           /\ Local(t, [f EXCEPT !.pc = "return"])

\* for key, value := range rconfig.data: if value == "" { Printf("%s: (not
\* set)\n", key) } else { Printf("%s: %s\n", key, value) }.
PrintStatus(t) ==
    LET f == frame[t]
        o == f.self
    IN  \/ /\ At(t, "PrintStatus", "body")
           /\ Local(t, [f EXCEPT !.pc = "range", !.todo = DOMAIN Data(o)])
        \/ /\ At(t, "PrintStatus", "range")
           /\ \E key \in f.todo :
                IF key \notin DOMAIN Data(o)
                THEN Local(t, [f EXCEPT !.todo = @ \ {key}])
                ELSE IF Data(o)[key] = ""
                THEN Local(t, [f EXCEPT !.todo = @ \ {key},
                         !.out = Append(@, Printf1("%s: (not set)\n", key))])
                ELSE Local(t, [f EXCEPT !.todo = @ \ {key},
                         !.out = Append(@, Printf2("%s: %s\n", key, Data(o)[key]))])
        \/ /\ At(t, "PrintStatus", "range")
           /\ f.todo = {}
           /\ Local(t, [f EXCEPT !.pc = "return"])

(* ------------------------------ CreateCopy ---------------------------- *)

\* A copy that shares the receiver's two maps.
CopyOf_Shallow(f) ==
    [data |-> configs[f.self].data, ignoreKeys |-> configs[f.self].ignoreKeys,
     mu |-> NewMutex]

\* The config CreateCopy returns: &RuntimeConfig{data: newData, ignoreKeys:
\* newIgnoreKeys}, with a mutex of its own.
CopyOf(f) == [data |-> f.newData, ignoreKeys |-> f.newIgnoreKeys, mu |-> NewMutex]

\* newData := make(...); for key, value := range rconfig.data { newData[key] =
\* value }; newIgnoreKeys := make(...); for key, value := range
\* rconfig.ignoreKeys { newIgnoreKeys[key] = value }; return &RuntimeConfig{...}.
CreateCopy(t) ==
    LET f == frame[t]
        o == f.self
    IN  \/ /\ At(t, "CreateCopy", "body")
           /\ LET d == FreshName(DataNames(configs, frame))
              IN  Step(t, [f EXCEPT !.pc = "range", !.newData = d,
                                    !.todo = DOMAIN Data(o)],
                       configs, (d :> MakeMap) @@ dataMaps, boolMaps, origin)
        \/ /\ At(t, "CreateCopy", "range")
           /\ \E key \in f.todo :
                Step(t, [f EXCEPT !.todo = @ \ {key}], configs,
                     IF key \in DOMAIN Data(o)
                     THEN [dataMaps EXCEPT ![f.newData] = MapStore(@, key, Data(o)[key])]
                     ELSE dataMaps,
                     boolMaps, origin)
        \/ /\ At(t, "CreateCopy", "range")
           /\ f.todo = {}
           /\ LET b == FreshName(BoolNames(configs, frame))
              IN  Step(t, [f EXCEPT !.pc = "range2", !.newIgnoreKeys = b,
                                    !.todo = DOMAIN Ignore(o)],
                       configs, dataMaps, (b :> MakeMap) @@ boolMaps, origin)
        \/ /\ At(t, "CreateCopy", "range2")
           /\ \E key \in f.todo :
                Step(t, [f EXCEPT !.todo = @ \ {key}], configs, dataMaps,
                     IF key \in DOMAIN Ignore(o)
                     THEN [boolMaps EXCEPT ![f.newIgnoreKeys] =
                               MapStore(@, key, Ignore(o)[key])]
                     ELSE boolMaps,
                     origin)
        \/ /\ At(t, "CreateCopy", "range2")
           /\ f.todo = {}
           /\ Step(t, [f EXCEPT !.pc = "return", !.cm = Len(configs) + 1,
                                !.newData = 0, !.newIgnoreKeys = 0],
                   Append(configs, CopyOf(f)), dataMaps, boolMaps,
                   Append(origin, origin[o]))

(* ------------------------------ the program --------------------------- *)

\* A step inside a call of goroutine t.
Run(t) ==
    \/ Lock(t)
    \/ RLock(t)
    \/ Return(t)
    \/ NewRuntimeConfig(t)
    \/ CreateCopy(t)
    \/ ClearData(t)
    \/ ClearIgnoreKeys(t)
    \/ Set(t)
    \/ Get(t)
    \/ Delete(t)
    \/ Keys(t)
    \/ Size(t)
    \/ AddIgnoreKeys(t)
    \/ AddIgnoreKey(t)
    \/ RemoveIgnoreKey(t)
    \/ IgnoreKeys(t)
    \/ LoadValueFromEnv(t)
    \/ ValuesLoaded(t)
    \/ PrintMissingValues(t)
    \/ PrintStatus(t)

\* Goroutines calling any of the package's functions, concurrently.
Next == \E t \in Threads : Call(t, AllOps, MaxCalls) \/ Run(t)

Spec == Init /\ [][Next]_vars

(* ------------------ the older variant (src/unnamed/part_000) ---------- *)

\* const mKeyDefaultValue string = "", in the older variant.
Old_mKeyDefaultValue == ""

\* How each method of the older variant takes the mutex.
OldLocking(op) ==
    IF op \in {"Set", "Delete", "LoadValueFromEnv"} THEN "Lock"
    ELSE IF op \in {"Get", "Keys", "Size", "PrintStatus"} THEN "RLock"
    ELSE "none"

\* A step of the older variant's call.
OldStep(o) ==
    /\ old' = o
    /\ UNCHANGED <<configs, dataMaps, boolMaps, frame, calls, origin>>

OldAt(op, pc) == old.f.op = op /\ old.f.pc = pc

\* rconfig.mu.Lock()
OldLock ==
    /\ old.f.pc = "lock"
    /\ OldLocking(old.f.op) = "Lock"
    /\ CanLock(old.mu)
    /\ OldStep([old EXCEPT !.mu.w = 1, !.f.pc = "body"])

\* rconfig.mu.RLock()
OldRLock ==
    /\ old.f.pc = "lock"
    /\ OldLocking(old.f.op) = "RLock"
    /\ CanRLock(old.mu)
    /\ OldStep([old EXCEPT !.mu.r = @ \cup {1}, !.f.pc = "body"])

\* The call returns: its deferred unlock runs.  Its results stay in the frame
\* until the next call, for comparison.
OldReturn ==
    /\ old.f.pc = "return"
    /\ OldStep([old EXCEPT !.f.pc = "returned",
                            !.mu = IF OldLocking(old.f.op) = "Lock" THEN Unlock(@, 1)
                                   ELSE IF OldLocking(old.f.op) = "RLock"
                                   THEN RUnlock(@, 1)
                                   ELSE @])

\* cm := &RuntimeConfig{data: make(...)}, then
\* for _, key := range defaultKeys { cm.data[key] = mKeyDefaultValue }, then
\* return cm.
OldNewRuntimeConfig ==
    \/ /\ OldAt("NewRuntimeConfig", "body")
       /\ OldStep([old EXCEPT !.made = TRUE, !.data = MakeMap, !.mu = NewMutex,
                               !.f.pc = "range", !.f.i = 1])
    \/ /\ OldAt("NewRuntimeConfig", "range")
       /\ old.f.i <= Len(old.f.keys)
       /\ OldStep([old EXCEPT !.data = MapStore(@, old.f.keys[old.f.i],
                                                Old_mKeyDefaultValue),
                               !.f.i = @ + 1])
    \/ /\ OldAt("NewRuntimeConfig", "range")
       /\ old.f.i > Len(old.f.keys)
       /\ OldStep([old EXCEPT !.f.pc = "return"])

\* rconfig.data[key] = value
OldSet ==
    /\ OldAt("Set", "body")
    /\ OldStep([old EXCEPT !.data = MapStore(@, old.f.key, old.f.value),
                            !.f.pc = "return"])

\* return rconfig.data[key]
OldGet ==
    /\ OldAt("Get", "body")
    /\ OldStep([old EXCEPT !.f.ret = MapString(old.data, old.f.key),
                            !.f.pc = "return"])

\* delete(rconfig.data, key)
OldDelete ==
    /\ OldAt("Delete", "body")
    /\ OldStep([old EXCEPT !.data = MapDelete(@, old.f.key), !.f.pc = "return"])

\* keys := make([]string, 0, len(rconfig.data)), then
\* for key := range rconfig.data { keys = append(keys, key) }, then return keys.
OldKeys ==
    \/ /\ OldAt("Keys", "body")
       /\ OldStep([old EXCEPT !.f.pc = "range", !.f.keys = <<>>,
                               !.f.todo = DOMAIN old.data])
    \/ /\ OldAt("Keys", "range")
       /\ \E key \in old.f.todo :
            OldStep([old EXCEPT !.f.todo = @ \ {key}, !.f.keys = Append(@, key)])
    \/ /\ OldAt("Keys", "range")
       /\ old.f.todo = {}
       /\ OldStep([old EXCEPT !.f.pc = "return"])

\* return len(rconfig.data)
OldSize ==
    /\ OldAt("Size", "body")
    /\ OldStep([old EXCEPT !.f.n = Cardinality(DOMAIN old.data), !.f.pc = "return"])

\* for key := range rconfig.data { rconfig.data[key] = os.Getenv(key) }
OldLoadValueFromEnv ==
    \/ /\ OldAt("LoadValueFromEnv", "body")
       /\ OldStep([old EXCEPT !.f.pc = "range", !.f.todo = DOMAIN old.data])
    \/ /\ OldAt("LoadValueFromEnv", "range")
       /\ \E key \in old.f.todo :
            OldStep([old EXCEPT !.f.todo = @ \ {key},
                                !.data = MapStore(@, key, Getenv(key))])
    \/ /\ OldAt("LoadValueFromEnv", "range")
       /\ old.f.todo = {}
       /\ OldStep([old EXCEPT !.f.pc = "return"])

\* for key, value := range rconfig.data: if value == "" { Printf("%s: (not
\* set)\n", key) } else { Printf("%s: %s\n", key, value) }.
OldPrintStatus ==
    \/ /\ OldAt("PrintStatus", "body")
       /\ OldStep([old EXCEPT !.f.pc = "range", !.f.todo = DOMAIN old.data])
    \/ /\ OldAt("PrintStatus", "range")
       /\ \E key \in old.f.todo :
            OldStep([old EXCEPT !.f.todo = @ \ {key},
                       !.f.out = Append(@,
                           IF old.data[key] = ""
                           THEN Printf1("%s: (not set)\n", key)
                           ELSE Printf2("%s: %s\n", key, old.data[key]))])
    \/ /\ OldAt("PrintStatus", "range")
       /\ old.f.todo = {}
       /\ OldStep([old EXCEPT !.f.pc = "return"])

\* A step inside the call on the older variant.
OldRun ==
    \/ OldLock
    \/ OldRLock
    \/ OldReturn
    \/ OldNewRuntimeConfig
    \/ OldSet
    \/ OldGet
    \/ OldDelete
    \/ OldKeys
    \/ OldSize
    \/ OldLoadValueFromEnv
    \/ OldPrintStatus

\* The functions the two variants have in common, and the newer variant's
\* functions on ignoreKeys that are called in between.
CommonOps ==
    {"NewRuntimeConfig", "Set", "Get", "Delete", "Keys", "Size",
     "LoadValueFromEnv", "PrintStatus"}

IgnoreOps == {"AddIgnoreKey", "RemoveIgnoreKey", "ClearIgnoreKeys"}

\* The same call is made on both variants, with the same arguments (the newer
\* NewRuntimeConfig with any ignoreKeys besides), once the previous call on
\* each has returned.
CallBoth(t) ==
    /\ frame[t].pc = "idle"
    /\ old.f.pc \in {"idle", "returned"}
    /\ calls < MaxRefineCalls
    /\ \E op \in CommonOps :
        \E o \in Receivers(op) :
            \E f \in Calls(op, o) :
                /\ frame' = [frame EXCEPT ![t] = f]
                /\ old' = [old EXCEPT !.f =
                              [OldIdle EXCEPT !.pc = f.pc, !.op = op, !.key = f.key,
                                              !.value = f.value, !.keys = f.keys]]
                /\ calls' = calls + 1
                /\ UNCHANGED <<configs, dataMaps, boolMaps, origin>>

\* One goroutine making the same calls on a config of each variant, and calls
\* on the newer one's ignoreKeys in between.
NextRefine ==
    \/ \E t \in {1} :
          \/ CallBoth(t)
          \/ Call(t, IgnoreOps, MaxRefineCalls)
          \/ Lock(t)
          \/ RLock(t)
          \/ Return(t)
          \/ NewRuntimeConfig(t)
          \/ Set(t)
          \/ Get(t)
          \/ Delete(t)
          \/ Keys(t)
          \/ Size(t)
          \/ LoadValueFromEnv(t)
          \/ PrintStatus(t)
          \/ AddIgnoreKey(t)
          \/ RemoveIgnoreKey(t)
          \/ ClearIgnoreKeys(t)
    \/ OldRun

SpecRefine == Init /\ [][NextRefine]_vars

\* The same goroutines under a fair scheduler: a goroutine whose call can take
\* its next step (its Lock or RLock can return, or it is past it) is not held
\* back for ever.
SpecFair == Spec /\ \A t \in Threads : WF_vars(Run(t))

\* One goroutine calling any of the package's functions, one call after the
\* other.
NextSerial == \E t \in {1} : Call(t, AllOps, MaxSerialCalls) \/ Run(t)

SpecSerial == Init /\ [][NextSerial]_vars

\* Goroutines that construct a config and then set, read, delete and reload
\* its values concurrently.
SetGetOps == {"NewRuntimeConfig", "Set", "Get", "Delete", "ClearData", "LoadValueFromEnv"}

NextSetGet ==
    \E t \in Threads :
        \/ Call(t, SetGetOps, MaxSetGetCalls)
        \/ Lock(t)
        \/ RLock(t)
        \/ Return(t)
        \/ NewRuntimeConfig(t)
        \/ ClearData(t)
        \/ Set(t)
        \/ Get(t)
        \/ Delete(t)
        \/ LoadValueFromEnv(t)

SpecSetGet == Init /\ [][NextSetGet]_vars

\* Goroutines that construct a config, set values, ignore keys and ask for
\* the config's completeness and for its missing values concurrently.
ReportOps ==
    {"NewRuntimeConfig", "Set", "AddIgnoreKey", "ValuesLoaded", "PrintMissingValues"}

NextReport ==
    \E t \in Threads :
        \/ Call(t, ReportOps, MaxReportCalls)
        \/ Lock(t)
        \/ RLock(t)
        \/ Return(t)
        \/ NewRuntimeConfig(t)
        \/ Set(t)
        \/ AddIgnoreKey(t)
        \/ ValuesLoaded(t)
        \/ PrintMissingValues(t)

SpecReport == Init /\ [][NextReport]_vars

\* Goroutines that each work on keys of their own: the first on HOST, the
\* second on PORT, any further one on none.
OwnKeys(t) == IF t = 1 THEN {"HOST"} ELSE IF t = 2 THEN {"PORT"} ELSE {}

DisjointOps == {"NewRuntimeConfig", "Set", "Get", "AddIgnoreKeys"}

\* The call with frame f is one on goroutine t's own keys.
Own(t, f) ==
    CASE f.op \in {"Set", "Get"} -> f.key \in OwnKeys(t)
      [] f.op = "AddIgnoreKeys" -> \A x \in DOMAIN f.keys : f.keys[x] \in OwnKeys(t)
      [] OTHER -> TRUE

\* Goroutine t calls Set, Get or AddIgnoreKeys with keys of its own (or
\* NewRuntimeConfig, while the program has no config yet).
CallOwn(t) ==
    /\ frame[t].pc = "idle"
    /\ calls < MaxDisjointCalls
    /\ \E op \in DisjointOps :
        \E o \in Receivers(op) :
            \E f \in Calls(op, o) :
                /\ Own(t, f)
                /\ frame' = [frame EXCEPT ![t] = f]
                /\ calls' = calls + 1
                /\ UNCHANGED <<configs, dataMaps, boolMaps, origin, old>>

NextDisjoint ==
    \E t \in Threads :
        \/ CallOwn(t)
        \/ Lock(t)
        \/ RLock(t)
        \/ Return(t)
        \/ NewRuntimeConfig(t)
        \/ Set(t)
        \/ Get(t)
        \/ AddIgnoreKeys(t)

\* The goroutines are scheduled fairly.
SpecDisjoint == Init /\ [][NextDisjoint]_vars /\ \A t \in Threads : WF_vars(Run(t))

(* ------------------------------ properties ---------------------------- *)

Range(s) == {s[x] : x \in DOMAIN s}

\* Completeness as the documentation states it: every key of values that is
\* not ignored has a non-empty value.
IsComplete(c) == \A k \in DOMAIN c.values : k \notin c.ignored => c.values[k] # ""

\* The missing keys as the documentation states them: the keys of values whose
\* value is empty and that are not ignored.
MissingKeys(c) == {k \in DOMAIN c.values : c.values[k] = "" /\ k \notin c.ignored}

\* The receiver's contents when goroutine t's call is about to return.
Mine(t) == Contents(frame[t].self)

\* C1: whenever ValuesLoaded is about to return, after any calls of the other
\* functions, its result is true exactly when every key of the receiver's data
\* that is not in ignoreKeys has a non-empty value (so true for empty data).
C1_ValuesLoaded ==
    \A t \in Threads :
        At(t, "ValuesLoaded", "return") => (frame[t].ok <=> IsComplete(Mine(t)))

\* C1's scenario: HOST and PORT are known, PORT is ignored and still empty,
\* HOST has been set, and ValuesLoaded returns true.
C1_Witness ==
    \E t \in Threads :
        /\ At(t, "ValuesLoaded", "return")
        /\ frame[t].ok
        /\ Mine(t).values = [k \in KeyNames |-> IF k = "HOST" THEN "localhost" ELSE ""]
        /\ Mine(t).ignored = {"PORT"}
        /\ origin[frame[t].self]["HOST"].kind = "set"

\* C4: whenever IgnoreKeys is about to return, the strings it returns are
\* exactly the keys of the receiver's ignoreKeys.
C4_IgnoreKeys ==
    \A t \in Threads :
        At(t, "IgnoreKeys", "return") => Range(frame[t].keys) = Mine(t).ignored

\* C5: whenever PrintMissingValues is about to return, it has printed one
\* "(not set)" line for each key of data whose value is empty and that is not
\* in ignoreKeys, and no other line.
C5_PrintMissingValues ==
    \A t \in Threads :
        At(t, "PrintMissingValues", "return") =>
            LET out == frame[t].out
            IN  /\ \A x \in DOMAIN out : out[x][1] = "%s: (not set)\n"
                /\ {out[x][2] : x \in DOMAIN out} = MissingKeys(Mine(t))
                /\ Len(out) = Cardinality(MissingKeys(Mine(t)))

\* C5's case: a key is ignored and empty, another is empty and reported.
C5_Witness ==
    \E t \in Threads :
        /\ At(t, "PrintMissingValues", "return")
        /\ \E k \in DOMAIN Mine(t).values :
               k \in Mine(t).ignored /\ Mine(t).values[k] = ""
        /\ Len(frame[t].out) = 1

\* C7: when NewRuntimeConfig(defaultKeys, ignoreKeys) is about to return, the
\* keys of the new config's data are the distinct defaultKeys, each with the
\* empty string, and its ignored keys are the distinct ignoreKeys; and whenever
\* Size is about to return, its result is the number of keys of data (so
\* the number of distinct defaultKeys right after construction).
C7_NewRuntimeConfig ==
    \A t \in Threads :
        /\ At(t, "NewRuntimeConfig", "return") =>
              LET c == Contents(frame[t].cm)
              IN  /\ DOMAIN c.values = Range(frame[t].keys)
                  /\ Cardinality(DOMAIN c.values) = Cardinality(Range(frame[t].keys))
                  /\ \A k \in DOMAIN c.values : c.values[k] = ""
                  /\ c.ignored = Range(frame[t].ignoreKeys)
        /\ At(t, "Size", "return") =>
              frame[t].n = Cardinality(DOMAIN Mine(t).values)

\* C7's case: a key is given twice, and an ignored key is not a default key.
C7_Witness ==
    \E t \in Threads :
        /\ At(t, "NewRuntimeConfig", "return")
        /\ frame[t].keys = <<"HOST", "HOST">>
        /\ frame[t].ignoreKeys = <<"PORT">>

\* The calls inside their critical sections on config o.
Inside(o, ops) ==
    {t \in Threads : InCS(frame[t]) /\ frame[t].self = o /\ frame[t].op \in ops}

\* C9: on each config, at most one writing call is inside its critical
\* section, and while one is, no reading call is inside its own.
C9_Exclusion ==
    \A o \in 1..Len(configs) :
        /\ Cardinality(Inside(o, WriterOps)) <= 1
        /\ Inside(o, WriterOps) # {} => Inside(o, ReaderOps) = {}

\* C9's case: two reading calls are inside their critical sections on the
\* same config at once.
C9_Witness ==
    \E o \in 1..Len(configs) : Cardinality(Inside(o, ReaderOps)) = 2

\* The history of the key of goroutine t's call, in its receiver.
Hist(t) == origin[frame[t].self][frame[t].key]

\* C2 as stated: when Get(key) is about to return, the key has been written by
\* NewRuntimeConfig, Set or LoadValueFromEnv (the value returned is one that
\* such a call wrote for the key), and Get returns the value of the last write:
\* after Set(key, v), v, the value of the Set that took the write lock last.
C2_AsStated ==
    \A t \in Threads :
        At(t, "Get", "return") =>
            /\ Hist(t).kind # "none"
            /\ Hist(t).kind \in {"new", "set", "env"} => frame[t].ret = Hist(t).val

\* C2, amended: when Get(key) is about to return, it returns the value of the
\* last write to the key (after Set(key, v) with no later Set, Delete,
\* ClearData or LoadValueFromEnv on the key, v: the value of the Set that took
\* the write lock last), and the empty string when the key was never written
\* or was removed since its last write.
C2_SetGet ==
    \A t \in Threads :
        At(t, "Get", "return") =>
            /\ Hist(t).kind \in {"new", "set", "env"} => frame[t].ret = Hist(t).val
            /\ Hist(t).kind \in {"none", "deleted"} => frame[t].ret = ""

\* C2's case: Get returns the value a Set wrote while another goroutine's
\* Set of another value for the same key waits for the lock.
C2_Witness ==
    \E t \in Threads, u \in Threads :
        /\ At(t, "Get", "return")
        /\ Hist(t).kind = "set"
        /\ frame[t].ret = "localhost"
        /\ At(u, "Set", "lock")
        /\ frame[u].self = frame[t].self
        /\ frame[u].key = frame[t].key
        /\ frame[u].value # frame[t].ret

\* Goroutine t takes a step of its call (the history `seen` apart).
Stepped(t) == [frame[t] EXCEPT !.seen = {}] # [frame'[t] EXCEPT !.seen = {}]

\* A step changes the contents of config o only as a step of a writing call on
\* o itself, or of the NewRuntimeConfig that is making o.
OwnWritesOnly ==
    \A o \in 1..Len(configs) :
        Contents(o)' # Contents(o) =>
            \E t \in Threads :
                /\ Stepped(t)
                /\ \/ frame[t].self = o /\ frame[t].op \in WriterOps
                   \/ frame[t].cm = o /\ frame[t].op = "NewRuntimeConfig"

\* C3: when CreateCopy is about to return, the new config's contents are
\* contents the receiver had at one instant while the call held the read lock,
\* whatever other goroutines do; and no step of a call on one config changes
\* the contents of another config, the original's or the copy's.
C3_CreateCopy ==
    /\ [](\A t \in Threads :
            At(t, "CreateCopy", "return") => Contents(frame[t].cm) \in frame[t].seen)
    /\ [][OwnWritesOnly]_vars

\* C3's case: a copy has been returned, and it and its original have come to
\* differ.
C3_Witness ==
    /\ Len(configs) = 2
    /\ Published(2)
    /\ Contents(1) # Contents(2)

\* What Delete(key) does to the receiver's data in the step that runs it: the
\* key is gone, every other key keeps its value, and the size drops by one
\* exactly when the key was there.
DeleteEffect(t) ==
    LET k == frame[t].key
        before == Mine(t).values
        after == Mine(t)'.values
    IN  /\ DOMAIN after = DOMAIN before \ {k}
        /\ \A x \in DOMAIN after : after[x] = before[x]
        /\ k \in DOMAIN before => Cardinality(DOMAIN after) = Cardinality(DOMAIN before) - 1
        /\ k \notin DOMAIN before => after = before
        /\ Mine(t)'.ignored = Mine(t).ignored
        /\ origin'[frame[t].self][k].kind \in {"none", "deleted"}

\* C6: Delete(key) removes the key from data and nothing else (the size drops
\* by one if the key was there, data is unchanged if it was not); and until a
\* Set writes the key again, Get(key) returns the empty string and Keys does
\* not return the key.
C6_Delete ==
    /\ [][\A t \in Threads :
            At(t, "Delete", "body") /\ Stepped(t) => DeleteEffect(t)]_vars
    /\ [](\A t \in Threads :
            /\ At(t, "Get", "return") /\ Hist(t).kind \in {"none", "deleted"}
                  => frame[t].ret = ""
            /\ At(t, "Keys", "return") =>
                  \A k \in KeyNames :
                      origin[frame[t].self][k].kind \in {"none", "deleted"}
                          => k \notin Range(frame[t].keys))

\* C6's case: Keys returns after a key that had a value was deleted, and
\* another key is still there.
C6_Witness ==
    \E t \in Threads :
        /\ At(t, "Keys", "return")
        /\ Len(frame[t].keys) = 1
        /\ \E k \in KeyNames : origin[frame[t].self][k].kind = "deleted"

\* C8: when LoadValueFromEnv is about to return, every key of data has the
\* value of its environment variable (the empty string when the variable is not
\* set) and the keys of data are those it had throughout the call; and a Get
\* of a key last written by LoadValueFromEnv returns the variable's value.
C8_LoadValueFromEnv ==
    \A t \in Threads :
        /\ At(t, "LoadValueFromEnv", "return") =>
              /\ \A k \in DOMAIN Mine(t).values : Mine(t).values[k] = Getenv(k)
              /\ \A c \in frame[t].seen : DOMAIN c.values = DOMAIN Mine(t).values
        /\ At(t, "Get", "return") /\ Hist(t).kind = "env" =>
              frame[t].ret = Getenv(frame[t].key)

\* C8's case: PORT, added and set to a non-empty value by Set, is blanked by
\* the load, and HOST gets db.local.
C8_Witness ==
    \E t \in Threads :
        /\ At(t, "LoadValueFromEnv", "return")
        /\ Mine(t).values = [k \in KeyNames |-> IF k = "HOST" THEN "db.local" ELSE ""]
        /\ \E c \in frame[t].seen :
               c.values = [k \in KeyNames |-> IF k = "HOST" THEN "" ELSE "localhost"]

\* The keys a call has printed as "(not set)".
Printed(t) == {frame[t].out[x][2] : x \in DOMAIN frame[t].out}

\* C10: when ValuesLoaded or PrintMissingValues is about to return, whatever
\* other goroutines call meanwhile, its result is the one the documentation
\* gives for contents (data and ignoreKeys together) that the receiver had at
\* one instant during the call.
C10_Snapshot ==
    \A t \in Threads :
        /\ At(t, "ValuesLoaded", "return") =>
              \E c \in frame[t].seen : frame[t].ok <=> IsComplete(c)
        /\ At(t, "PrintMissingValues", "return") =>
              \E c \in frame[t].seen : Printed(t) = MissingKeys(c)

\* C10's case: PrintMissingValues returns a non-empty report while a writing
\* call of another goroutine on the same config waits for the lock.
C10_Witness ==
    \E t \in Threads, u \in Threads :
        /\ At(t, "PrintMissingValues", "return")
        /\ Printed(t) # {}
        /\ frame[u].pc = "lock"
        /\ frame[u].op \in WriterOps
        /\ frame[u].self = frame[t].self

\* The goroutine that holds config o's mutex for writing (0: none), and those
\* that hold it for reading, going by the calls in progress.
Writer(o) ==
    IF Inside(o, WriterOps) = {} THEN 0 ELSE CHOOSE t \in Inside(o, WriterOps) : TRUE

\* C11: each config's mutex is held exactly by the calls on it that are
\* between their Lock/RLock and their return, on every path (so it is free
\* whenever no call on it is in progress, and after every return, the early
\* ones of AddIgnoreKey, RemoveIgnoreKey and ValuesLoaded included); and under
\* a fair scheduler every call that was started returns.
C11_LockReleased ==
    /\ [](\A o \in 1..Len(configs) :
            /\ configs[o].mu.w = Writer(o)
            /\ configs[o].mu.r = Inside(o, ReaderOps))
    /\ \A t \in Threads : (frame[t].pc # "idle") ~> (frame[t].pc = "idle")

\* C11's case: RemoveIgnoreKey is about to return early (the key was not
\* ignored) while another goroutine's writing call on the same config waits
\* for the mutex.
C11_Witness ==
    \E t \in Threads, u \in Threads :
        /\ At(t, "RemoveIgnoreKey", "return")
        /\ frame[t].out = <<Printf1("Key '%s' is not in ignoreKeys.\n", frame[t].key)>>
        /\ frame[u].pc = "lock"
        /\ frame[u].op \in WriterOps
        /\ frame[u].self = frame[t].self

\* No step loses an update of a goroutine working on keys of its own: the
\* last Set of a key is replaced only by a Set of the goroutine that owns the
\* key, and no key leaves ignoreKeys.
NoLostUpdate ==
    \A o \in 1..Len(configs) :
        /\ Contents(o).ignored \subseteq Contents(o)'.ignored
        /\ \A k \in KeyNames :
              origin[o][k].kind = "set" /\ origin'[o][k] # origin[o][k] =>
                  \E t \in Threads :
                      /\ At(t, "Set", "body")
                      /\ Stepped(t)
                      /\ k \in OwnKeys(t)
                      /\ origin'[o][k] = Wrote("set", frame[t].value)

\* C12: goroutines calling Set, Get and AddIgnoreKeys on keys of their own.
\* Every call returns; every key that was Set holds the value of its last Set,
\* which only the goroutine owning the key replaces; a Get of a key that was
\* Set returns that value; when AddIgnoreKeys is about to return its keys are
\* ignored, and no key leaves ignoreKeys afterwards.
C12_DisjointKeys ==
    /\ [](\A o \in 1..Len(configs) : \A k \in KeyNames :
            origin[o][k].kind = "set" =>
                k \in DOMAIN Data(o) /\ Data(o)[k] = origin[o][k].val)
    /\ [](\A t \in Threads :
            /\ At(t, "Get", "return") /\ Hist(t).kind = "set" =>
                  frame[t].ret = Hist(t).val
            /\ At(t, "AddIgnoreKeys", "return") =>
                  Range(frame[t].keys) \subseteq Mine(t).ignored)
    /\ [][NoLostUpdate]_vars
    /\ \A t \in Threads : (frame[t].pc # "idle") ~> (frame[t].pc = "idle")

\* C12's case: a goroutine's Get of its own key returns the value it Set,
\* the other goroutine has Set its own key and its key is ignored, and its
\* next AddIgnoreKeys waits for the mutex.
C12_Witness ==
    \E t \in Threads, u \in Threads :
        /\ At(t, "Get", "return")
        /\ Hist(t) = Wrote("set", "localhost")
        /\ frame[t].ret = "localhost"
        /\ At(u, "AddIgnoreKeys", "lock")
        /\ frame[u].self = frame[t].self
        /\ Len(frame[u].keys) = MaxLen
        /\ origin[frame[u].self][frame[u].keys[1]].kind = "set"
        /\ Mine(t).ignored = OwnKeys(u)

\* What the step that runs ClearData or ClearIgnoreKeys does to the receiver.
ClearEffect(t) ==
    /\ At(t, "ClearData", "body") =>
          /\ DOMAIN Mine(t)'.values = {}
          /\ Mine(t)'.ignored = Mine(t).ignored
    /\ At(t, "ClearIgnoreKeys", "body") =>
          /\ Mine(t)'.ignored = {}
          /\ Mine(t)'.values = Mine(t).values

\* No key of goroutine t's receiver has been written since data was cleared.
NothingWritten(t) ==
    \A k \in KeyNames : origin[frame[t].self][k].kind \in {"none", "deleted"}

\* C13: ClearData leaves data empty and ignoreKeys as it was, and until a key
\* is written again Size returns 0, Get returns the empty string and
\* ValuesLoaded returns true; ClearIgnoreKeys leaves ignoreKeys empty and data
\* as it was, and while ignoreKeys is empty ValuesLoaded returns true exactly
\* when every key of data has a non-empty value.
C13_Clear ==
    /\ [][\A t \in Threads : Stepped(t) => ClearEffect(t)]_vars
    /\ [](\A t \in Threads :
            /\ At(t, "Size", "return") /\ NothingWritten(t) => frame[t].n = 0
            /\ At(t, "Get", "return") /\ NothingWritten(t) => frame[t].ret = ""
            /\ At(t, "ValuesLoaded", "return") /\ NothingWritten(t) => frame[t].ok
            /\ At(t, "ValuesLoaded", "return") /\ Mine(t).ignored = {} =>
                  (frame[t].ok <=>
                      \A k \in DOMAIN Mine(t).values : Mine(t).values[k] # ""))

\* C13's case: Size returns 0 after ClearData has removed both keys, and a
\* key is still ignored.
C13_Witness ==
    \E t \in Threads :
        /\ At(t, "Size", "return")
        /\ frame[t].n = 0
        /\ \A k \in KeyNames : origin[frame[t].self][k].kind = "deleted"
        /\ Mine(t).ignored # {}
        /\ calls < MaxSerialCalls

\* The notices the documentation gives for adding `keys`, in order, to the
\* ignored set `ignored`: "added" for a key that is not ignored at that point,
\* "already in" for one that is.
RECURSIVE AddNotices(_, _)
AddNotices(ignored, keys) ==
    IF keys = <<>> THEN <<>>
    ELSE LET k == Head(keys)
         IN  <<IF k \in ignored
               THEN Printf1("Key '%s' is already in ignoreKeys.\n", k)
               ELSE Printf1("Key '%s' added to ignoreKeys.\n", k)>>
             \o AddNotices(ignored \cup {k}, Tail(keys))

\* The notice the documentation gives for removing key k from `ignored`.
RemoveNotices(ignored, k) ==
    <<IF k \in ignored
      THEN Printf1("Key '%s' removed from ignoreKeys.\n", k)
      ELSE Printf1("Key '%s' is not in ignoreKeys.\n", k)>>

\* The contents, after a step, of the receiver of the call goroutine t was in
\* before the step.
After(t) == ContentsOf(configs', dataMaps', boolMaps', frame[t].self)

\* What a step of AddIgnoreKey, RemoveIgnoreKey or AddIgnoreKeys does.
IgnoreEffect(t) ==
    LET k == frame[t].key
        before == Mine(t).ignored
        after == After(t).ignored
    IN  /\ At(t, "AddIgnoreKey", "body") =>
              /\ after = before \cup {k}
              /\ frame'[t].out = AddNotices(before, <<k>>)
              /\ k \in before => after = before
        /\ At(t, "RemoveIgnoreKey", "body") =>
              /\ after = before \ {k}
              /\ frame'[t].out = RemoveNotices(before, k)
        /\ (frame[t].op = "AddIgnoreKeys" /\ InCS(frame[t])
                /\ Range(frame[t].keys) \subseteq before) => after = before

\* C14: AddIgnoreKeys(keys) leaves ignoreKeys as it was when the call took
\* the lock, united with keys, having printed for each key in order "added"
\* if the key was not ignored at that point and "already in" if it was;
\* AddIgnoreKey(k) does and prints what AddIgnoreKeys([k]) does; adding keys
\* that are all ignored already changes nothing; RemoveIgnoreKey(k) leaves
\* ignoreKeys without k, having printed "removed" if k was ignored and "not in"
\* if it was not.
C14_AddRemove ==
    /\ [][\A t \in Threads : Stepped(t) => IgnoreEffect(t)]_vars
    /\ [](\A t \in Threads :
            At(t, "AddIgnoreKeys", "return") =>
                \E c \in frame[t].seen :
                    /\ Mine(t).ignored = c.ignored \cup Range(frame[t].keys)
                    /\ frame[t].out = AddNotices(c.ignored, frame[t].keys))

\* C14's case: a key given twice in one call, not ignored before, gets
\* "added" and then "already in".
C14_Witness ==
    \E t \in Threads, k \in KeyNames :
        /\ At(t, "AddIgnoreKeys", "return")
        /\ frame[t].keys = <<k, k>>
        /\ frame[t].out = <<Printf1("Key '%s' added to ignoreKeys.\n", k),
                            Printf1("Key '%s' is already in ignoreKeys.\n", k)>>

\* What the step that runs Get, Delete or RemoveIgnoreKey does when the key is
\* not there.
AbsentEffect(t) ==
    LET k == frame[t].key
    IN  /\ At(t, "Get", "body") =>
              /\ After(t) = Mine(t)
              /\ k \notin DOMAIN Mine(t).values => frame'[t].ret = ""
              /\ k \in DOMAIN Mine(t).values /\ Mine(t).values[k] = "" =>
                    frame'[t].ret = ""
        /\ At(t, "Delete", "body") /\ k \notin DOMAIN Mine(t).values =>
              After(t) = Mine(t)
        /\ At(t, "RemoveIgnoreKey", "body") /\ k \notin Mine(t).ignored =>
              After(t) = Mine(t)

\* C15: with one goroutine calling, every method can be called on every config
\* that was returned, and a call that was started can always take its next
\* step, up to its return (no call fails or stops half-way); Get of a key that
\* is not in data returns the empty string, as for a key whose value is empty,
\* and leaves data and ignoreKeys as they were; Delete of a key that is not in
\* data and RemoveIgnoreKey of a key that is not ignored leave both as they
\* were.
C15_Total ==
    /\ [](\A t \in {1} :
            /\ frame[t].pc # "idle" => ENABLED Run(t)
            /\ (frame[t].pc = "idle" /\ calls < MaxSerialCalls /\ Len(configs) > 0) =>
                  \A op \in (WriterOps \cup ReaderOps) \ {"CreateCopy"} :
                      ENABLED Call(t, {op}, MaxSerialCalls))
    /\ [][\A t \in Threads : Stepped(t) => AbsentEffect(t)]_vars

\* C15's case: Get of a key that is not in data returns the empty string,
\* while another key is in data.
C15_Witness ==
    \E t \in Threads :
        /\ At(t, "Get", "return")
        /\ frame[t].key \notin DOMAIN Mine(t).values
        /\ DOMAIN Mine(t).values # {}
        /\ frame[t].ret = ""

\* Contents c without the ignored keys that are not keys of its values.
Pruned(c) == [c EXCEPT !.ignored = @ \cap DOMAIN c.values]

\* C16: whenever ValuesLoaded or PrintMissingValues is about to return, its
\* result is the one the documentation gives for the receiver's contents with
\* every ignored key that is not a key of data taken out of ignoreKeys.
C16_StrayIgnored ==
    \A t \in Threads :
        /\ At(t, "ValuesLoaded", "return") =>
              (frame[t].ok <=> IsComplete(Pruned(Mine(t))))
        /\ At(t, "PrintMissingValues", "return") =>
              /\ Printed(t) = MissingKeys(Pruned(Mine(t)))
              /\ Len(frame[t].out) = Cardinality(MissingKeys(Pruned(Mine(t))))

\* C16's case: a key that is not in data is ignored, a key of data is empty
\* and not ignored, and ValuesLoaded returns false.
C16_Witness ==
    \E t \in Threads :
        /\ At(t, "ValuesLoaded", "return")
        /\ Mine(t).ignored \ DOMAIN Mine(t).values # {}
        /\ \E k \in DOMAIN Mine(t).values :
               k \notin Mine(t).ignored /\ Mine(t).values[k] = ""
        /\ ~frame[t].ok

\* The methods whose result depends on ignoreKeys.
IgnoreReaders == {"ValuesLoaded", "PrintMissingValues", "CreateCopy"}

\* Goroutine u's AddIgnoreKeys is half-way: it has added a key and has yet to
\* add another.
Partial(u) ==
    /\ At(u, "AddIgnoreKeys", "range")
    /\ \E x \in DOMAIN frame[u].out :
           frame[u].out[x][1] = "Key '%s' added to ignoreKeys.\n"
    /\ \E j \in frame[u].i..Len(frame[u].keys) :
           frame[u].keys[j] \notin Mine(u).ignored

\* C17: while an AddIgnoreKeys has added some but not all of its keys, no
\* ValuesLoaded, PrintMissingValues or CreateCopy on the same config is
\* between its RLock and its return; and such a call sees one and the same
\* set of ignored keys all through.
C17_AddAtomic ==
    /\ \A u \in Threads :
            Partial(u) => Inside(frame[u].self, IgnoreReaders) = {}
    /\ \A t \in Threads :
            frame[t].op \in IgnoreReaders /\ InCS(frame[t]) =>
                \A c \in frame[t].seen : c.ignored = Mine(t).ignored

\* C17's case: ValuesLoaded waits for the mutex while an AddIgnoreKeys on
\* the same config has added the first of its two keys.
C17_Witness ==
    \E t \in Threads, u \in Threads :
        /\ Partial(u)
        /\ At(t, "ValuesLoaded", "lock")
        /\ frame[t].self = frame[u].self

\* What a step of a call leaves alone in the call's receiver.
FrameEffect(t) ==
    /\ frame[t].op \in {"Set", "Delete", "LoadValueFromEnv"} =>
          After(t).ignored = Mine(t).ignored
    /\ frame[t].op \in {"AddIgnoreKeys", "AddIgnoreKey", "RemoveIgnoreKey"} =>
          After(t).values = Mine(t).values
    /\ frame[t].op \in ReaderOps => After(t) = Mine(t)

\* C18: no step of Set, Delete or LoadValueFromEnv changes the receiver's
\* ignored keys; no step of AddIgnoreKeys, AddIgnoreKey or RemoveIgnoreKey
\* changes its data; and no step of Get, Keys, Size, IgnoreKeys, ValuesLoaded,
\* PrintMissingValues, PrintStatus or CreateCopy changes either.
C18_Frames ==
    [][\A t \in Threads : Stepped(t) => FrameEffect(t)]_vars

\* C18's case: Delete is about to return having removed from data a key that
\* is ignored, and the key is ignored still.
C18_Witness ==
    \E t \in Threads :
        /\ At(t, "Delete", "return")
        /\ Hist(t).kind = "deleted"
        /\ frame[t].key \in Mine(t).ignored

\* C19: when a ValuesLoaded and a PrintMissingValues on the same config are
\* both about to return, each holding the read lock (so both ran on the same
\* contents), ValuesLoaded returns true exactly when PrintMissingValues has
\* printed nothing; and each agrees with what the documentation gives for the
\* other: ValuesLoaded returns true exactly when no key is missing, and
\* PrintMissingValues prints nothing exactly when the config is complete.
C19_LoadedIffNoneMissing ==
    \A t \in Threads :
        /\ \A u \in Threads :
              (/\ At(t, "ValuesLoaded", "return")
               /\ At(u, "PrintMissingValues", "return")
               /\ frame[u].self = frame[t].self)
                  => (frame[t].ok <=> frame[u].out = <<>>)
        /\ At(t, "ValuesLoaded", "return") =>
              (frame[t].ok <=> MissingKeys(Mine(t)) = {})
        /\ At(t, "PrintMissingValues", "return") =>
              (frame[t].out = <<>> <=> IsComplete(Mine(t)))

\* C19's case: on a config with a value that was Set and an ignored key whose
\* value is empty, ValuesLoaded returns true and PrintMissingValues, in
\* another goroutine at the same time, has printed nothing.
C19_Witness ==
    \E t \in Threads, u \in Threads :
        /\ At(t, "ValuesLoaded", "return")
        /\ At(u, "PrintMissingValues", "return")
        /\ frame[u].self = frame[t].self
        /\ frame[t].ok
        /\ frame[u].out = <<>>
        /\ \E k \in KeyNames : origin[frame[t].self][k] = Wrote("set", "localhost")
        /\ \E k \in Mine(t).ignored :
               k \in DOMAIN Mine(t).values /\ Mine(t).values[k] = ""

\* The newer variant's config: the one NewRuntimeConfig made.
NewData == Data(1)

\* C20: one goroutine makes the same calls of NewRuntimeConfig, Set, Get,
\* Delete, Keys, Size, LoadValueFromEnv and PrintStatus on a config of each
\* variant, with calls of AddIgnoreKey, RemoveIgnoreKey and ClearIgnoreKeys on
\* the newer one in between.  When a call has run on both, the two have
\* returned the same result (Keys the same keys and PrintStatus the same
\* lines, in whatever order each map yields them); and whenever neither
\* variant is in the middle of a common call, both hold the same data.
C20_Refines ==
    \A t \in {1} :
        /\ (/\ frame[t].pc = "return"
            /\ frame[t].op \in CommonOps
            /\ old.f.pc = "returned")
              => /\ old.f.op = frame[t].op
                 /\ old.f.ret = frame[t].ret
                 /\ old.f.n = frame[t].n
                 /\ Range(old.f.keys) = Range(frame[t].keys)
                 /\ Len(old.f.keys) = Len(frame[t].keys)
                 /\ Range(old.f.out) = Range(frame[t].out)
                 /\ Len(old.f.out) = Len(frame[t].out)
        /\ (/\ Len(configs) > 0
            /\ frame[t].pc \in {"idle", "return"} \/ frame[t].op \in IgnoreOps
            /\ old.f.pc \in {"idle", "returned"})
              => /\ old.made
                 /\ old.data = NewData

\* C20's case: PrintStatus has printed the same two lines on both variants,
\* one for a key that the newer variant ignores.
C20_Witness ==
    \E t \in {1} :
        /\ At(t, "PrintStatus", "return")
        /\ OldAt("PrintStatus", "returned")
        /\ Len(frame[t].out) = Cardinality(KeyNames)
        /\ Range(old.f.out) = Range(frame[t].out)
        /\ Mine(t).ignored # {}
        /\ \E k \in KeyNames : Mine(t).values[k] # ""

====
